---- MODULE Spec2Model ----
(***************************************************************************)
(* Progress Photo Analyzer API (src/index.js): an Express server with two  *)
(* POST handlers, /api/analyze-photo and /api/compare-photos.  Each        *)
(* handler reads the provider key from the environment, validates the      *)
(* body, issues one outbound call to the inference provider, and extracts  *)
(* a JSON object from the reply text with the regular expression           *)
(* /\{[\s\S]*\}/ followed by JSON.parse.                                   *)
(*                                                                         *)
(* Texts are sequences of one-character strings; JSON values are tagged    *)
(* records, so that parsing is computed character by character.            *)
(***************************************************************************)
EXTENDS Integers, Sequences, FiniteSets, TLC

\* ------------------------------------------------------------------------
\* Bounds of the model
\* ------------------------------------------------------------------------

\* Number of connections handled concurrently in SpecConc.
NumConns == 2

\* Longest reply text, in pieces, among the free-form provider replies.
MaxPieces == 3

\* ------------------------------------------------------------------------
\* State
\* ------------------------------------------------------------------------

VARIABLES
  env,        \* process.env, as far as the handlers read it
  listening,  \* whether app.listen has run
  conn        \* per connection: the request being handled and its progress

vars == <<env, listening, conn>>

Conns == 1..NumConns

\* ------------------------------------------------------------------------
\* JSON values
\* ------------------------------------------------------------------------

JNull == [t |-> "null"]

JBool(b) == [t |-> "bool", b |-> b]

JNum(n) == [t |-> "num", n |-> n]

JStr(s) == [t |-> "str", s |-> s]

JArr(a) == [t |-> "arr", a |-> a]

JObj(m) == [t |-> "obj", m |-> m]

EmptyMap == [k \in {} |-> JNull]

\* obj[key] = val on a JavaScript object: the property is overwritten when
\* present and added when absent; every other property is kept.
SetProp(o, key, val) ==
  JObj([k \in (DOMAIN o.m) \cup {key} |-> IF k = key THEN val ELSE o.m[k]])

HasProp(o, key) == key \in DOMAIN o.m

\* JavaScript truthiness of a JSON value: null, false, 0 and "" are falsy;
\* every array and every object, the empty ones included, is truthy.
Truthy(v) ==
  CASE v.t = "null" -> FALSE
    [] v.t = "bool" -> v.b
    [] v.t = "num" -> v.n # 0
    [] v.t = "str" -> v.s # <<>>
    [] OTHER -> TRUE

\* ------------------------------------------------------------------------
\* JSON.parse, character by character
\* ------------------------------------------------------------------------

Digits == {"0", "1", "2", "3", "4", "5", "6", "7", "8", "9"}

DigitVal(c) ==
  CASE c = "0" -> 0 [] c = "1" -> 1 [] c = "2" -> 2 [] c = "3" -> 3
    [] c = "4" -> 4 [] c = "5" -> 5 [] c = "6" -> 6 [] c = "7" -> 7
    [] c = "8" -> 8 [] c = "9" -> 9

\* JSON whitespace: space, line feed, carriage return, tab.
Whitespace == {" ", "\n", "\r", "\t"}

Fail == [ok |-> FALSE, v |-> JNull, i |-> 0]

Ok(v, i) == [ok |-> TRUE, v |-> v, i |-> i]

RECURSIVE SkipWs(_, _)
SkipWs(s, i) ==
  IF i <= Len(s) /\ s[i] \in Whitespace THEN SkipWs(s, i + 1) ELSE i

\* Whether the characters of lit stand in s from position i on.
Matches(s, i, lit) ==
  /\ i + Len(lit) - 1 <= Len(s)
  /\ \A k \in 1..Len(lit) : s[i + k - 1] = lit[k]

\* The one element of a set of one element.  An intermediate result is
\* bound as the element of a set, { body : x \in {value} }, so that the
\* value is computed once however often body reads it.
TheOne(S) == CHOOSE x \in S : TRUE

\* A string literal opening at s[i] = '"': it runs to the next '"' (the
\* texts of the model hold no backslash and no control character).
ParseString(s, i) ==
  LET quotes == {j \in (i + 1)..Len(s) : s[j] = "\""} IN
  IF quotes = {} THEN Fail
  ELSE TheOne({ Ok(SubSeq(s, i + 1, j - 1), j + 1) :
                  j \in {q \in quotes : \A x \in quotes : q <= x} })

RECURSIVE ParseDigits(_, _, _)
ParseDigits(s, i, acc) ==
  IF i <= Len(s) /\ s[i] \in Digits
  THEN ParseDigits(s, i + 1, acc * 10 + DigitVal(s[i]))
  ELSE Ok(JNum(acc), i)

\* A number opening at the digit s[i]: "0" alone, or a digit 1-9 followed by
\* digits (a leading zero is not followed by digits in JSON).
ParseNumber(s, i) ==
  IF s[i] = "0" THEN Ok(JNum(0), i + 1) ELSE ParseDigits(s, i, 0)

RECURSIVE ParseValue(_, _), ParseMembers(_, _, _), ParseElements(_, _, _)

\* The value that starts at s[i0], after whitespace.
ParseValue(s, i0) ==
  TheOne({
    IF i > Len(s) THEN Fail
    ELSE CASE s[i] = "{" ->
                TheOne({ IF k <= Len(s) /\ s[k] = "}"
                         THEN Ok(JObj(EmptyMap), k + 1)
                         ELSE ParseMembers(s, k, JObj(EmptyMap))
                         : k \in {SkipWs(s, i + 1)} })
           [] s[i] = "[" ->
                TheOne({ IF k <= Len(s) /\ s[k] = "]"
                         THEN Ok(JArr(<<>>), k + 1)
                         ELSE ParseElements(s, k, <<>>)
                         : k \in {SkipWs(s, i + 1)} })
           [] s[i] = "\"" ->
                TheOne({ IF r.ok THEN Ok(JStr(r.v), r.i) ELSE Fail
                         : r \in {ParseString(s, i)} })
           [] s[i] \in Digits -> ParseNumber(s, i)
           [] Matches(s, i, <<"n", "u", "l", "l">>) -> Ok(JNull, i + 4)
           [] Matches(s, i, <<"t", "r", "u", "e">>) -> Ok(JBool(TRUE), i + 4)
           [] Matches(s, i, <<"f", "a", "l", "s", "e">>) -> Ok(JBool(FALSE), i + 5)
           [] OTHER -> Fail
    : i \in {SkipWs(s, i0)} })

\* What follows a member's value, read up to s[e - 1], in the object o.
AfterMember(s, e, o) ==
  IF e > Len(s) THEN Fail
  ELSE IF s[e] = "}" THEN Ok(o, e + 1)
  ELSE IF s[e] = "," THEN ParseMembers(s, SkipWs(s, e + 1), o)
  ELSE Fail

\* The members of an object from the key at s[i] on; a later member of the
\* same name replaces the earlier one.
ParseMembers(s, i, o) ==
  IF i > Len(s) \/ s[i] # "\"" THEN Fail
  ELSE TheOne({
    IF ~key.ok THEN Fail
    ELSE TheOne({
      IF c > Len(s) \/ s[c] # ":" THEN Fail
      ELSE TheOne({
        IF ~val.ok THEN Fail
        ELSE TheOne({ AfterMember(s, e, o2) :
                        e \in {SkipWs(s, val.i)},
                        o2 \in {SetProp(o, key.v, val.v)} })
        : val \in {ParseValue(s, c + 1)} })
      : c \in {SkipWs(s, key.i)} })
    : key \in {ParseString(s, i)} })

\* What follows an element, read up to s[e - 1], in the array a.
AfterElement(s, e, a) ==
  IF e > Len(s) THEN Fail
  ELSE IF s[e] = "]" THEN Ok(JArr(a), e + 1)
  ELSE IF s[e] = "," THEN ParseElements(s, e + 1, a)
  ELSE Fail

ParseElements(s, i, a) ==
  TheOne({
    IF ~val.ok THEN Fail
    ELSE TheOne({ AfterElement(s, e, a2) :
                    e \in {SkipWs(s, val.i)}, a2 \in {Append(a, val.v)} })
    : val \in {ParseValue(s, i)} })

\* JSON.parse(s0): [ok, v]; ok is FALSE where JSON.parse throws SyntaxError.
JSONparse(s0) ==
  TheOne({
    TheOne({ IF r.ok /\ SkipWs(s, r.i) > Len(s) THEN [ok |-> TRUE, v |-> r.v]
             ELSE [ok |-> FALSE, v |-> JNull]
             : r \in {ParseValue(s, 1)} })
    : s \in {s0} })

\* ------------------------------------------------------------------------
\* text.match(/\{[\s\S]*\}/)
\* ------------------------------------------------------------------------

NoMatch == [found |-> FALSE, span |-> <<>>]

\* The leftmost match starts at the first '{'; [\s\S]* is greedy, so it ends
\* at the last '}' after it.  There is no match without a '}' after a '{'.
BraceMatch(text) ==
  LET opens == {i \in 1..Len(text) : text[i] = "{"}
      closes == {i \in 1..Len(text) : text[i] = "}"}
  IN IF \E a \in opens, b \in closes : a < b
     THEN LET a == CHOOSE a \in opens : \A x \in opens : a <= x
              b == CHOOSE b \in closes : \A x \in closes : x <= b
          IN [found |-> TRUE, span |-> SubSeq(text, a, b)]
     ELSE NoMatch

\* ------------------------------------------------------------------------
\* Provider reply texts
\* ------------------------------------------------------------------------

KFocusAreas == <<"f", "o", "c", "u", "s", "A", "r", "e", "a", "s">>

KDaysApart == <<"d", "a", "y", "s", "A", "p", "a", "r", "t">>

KOverall == <<"o", "v", "e", "r", "a", "l", "l">>

KMuscles == <<"m", "u", "s", "c", "l", "e", "s">>

KName == <<"n", "a", "m", "e">>

Chest == <<"C", "h", "e", "s", "t">>

DigitChar(d) ==
  CASE d = 0 -> "0" [] d = 1 -> "1" [] d = 2 -> "2" [] d = 3 -> "3"
    [] d = 4 -> "4" [] d = 5 -> "5" [] d = 6 -> "6" [] d = 7 -> "7"
    [] d = 8 -> "8" [] d = 9 -> "9"

RECURSIVE NumChars(_)
NumChars(n) ==
  IF n < 10 THEN <<DigitChar(n)>>
  ELSE NumChars(n \div 10) \o <<DigitChar(n % 10)>>

Quoted(s) == <<"\"">> \o s \o <<"\"">>

\* The JSON text a provider writes for a value (no whitespace).
RECURSIVE Stringify(_), StringifyMembers(_, _), StringifyElements(_, _)

Stringify(v) ==
  CASE v.t = "null" -> <<"n", "u", "l", "l">>
    [] v.t = "bool" -> IF v.b THEN <<"t", "r", "u", "e">>
                       ELSE <<"f", "a", "l", "s", "e">>
    [] v.t = "num" -> NumChars(v.n)
    [] v.t = "str" -> Quoted(v.s)
    [] v.t = "arr" -> <<"[">> \o StringifyElements(v.a, 1) \o <<"]">>
    [] v.t = "obj" -> <<"{">> \o StringifyMembers(v.m, DOMAIN v.m) \o <<"}">>

StringifyMembers(m, keys) ==
  IF keys = {} THEN <<>>
  ELSE LET k == CHOOSE k \in keys : TRUE
           rest == keys \ {k}
       IN Quoted(k) \o <<":">> \o Stringify(m[k])
            \o (IF rest = {} THEN <<>> ELSE <<",">> \o StringifyMembers(m, rest))

StringifyElements(a, i) ==
  IF i > Len(a) THEN <<>>
  ELSE Stringify(a[i])
         \o (IF i = Len(a) THEN <<>> ELSE <<",">> \o StringifyElements(a, i + 1))

\* Values a provider may give for focusAreas: arrays, and values that are
\* not arrays, falsy (null, false, 0, "") and truthy ("Chest", 5, {}).
FocusValues ==
  { JArr(<<>>), JArr(<<JStr(Chest)>>), JStr(Chest), JNull, JBool(FALSE),
    JNum(0), JStr(<<>>), JNum(5), JObj(EmptyMap) }

DaysValues == { JNum(5), JNum(0), JNull }

ExtraMembers ==
  { EmptyMap,
    KOverall :> JStr(<<"y">>),
    KMuscles :> JArr(<<JObj(KName :> JStr(<<"A", "r", "m", "s">>))>>) }

\* The objects a provider may write: each of focusAreas and daysApart absent
\* or present, with or without further members (one of them nested).
ReplyObjects ==
  { JObj(f @@ d @@ e) :
      f \in {EmptyMap} \cup {KFocusAreas :> v : v \in FocusValues},
      d \in {EmptyMap} \cup {KDaysApart :> v : v \in DaysValues},
      e \in ExtraMembers }

\* Prose before and after the object; it holds no brace.
ProseBefore == { <<>>, <<"S", "u", "r", "e", ":", " ">> }

ProseAfter == { <<>>, <<" ", "o", "k">> }

WrappedTexts ==
  { pre \o Stringify(o) \o post :
      pre \in ProseBefore, o \in ReplyObjects, post \in ProseAfter }

\* Pieces of free-form replies: braces, a member, a comma, prose, and a
\* string value that holds a closing brace.
Pieces ==
  { <<"{">>, <<"}">>, <<",">>,
    Quoted(KDaysApart) \o <<":", "5">>,
    Quoted(<<"o">>) \o <<":">> \o Quoted(<<"}">>),
    <<"S", "e", "e", " ">> }

RECURSIVE PieceTexts(_)
PieceTexts(n) ==
  IF n = 0 THEN { <<>> }
  ELSE LET shorter == PieceTexts(n - 1)
       IN shorter \cup { t \o p : t \in shorter, p \in Pieces }

ReplyTexts == WrappedTexts \cup PieceTexts(MaxPieces)

\* ------------------------------------------------------------------------
\* Requests, the environment and the outbound call
\* ------------------------------------------------------------------------

\* A property that is absent from req.body or from process.env.
Undefined == "<undefined>"

\* !x for the values of the model: undefined and the empty string.
Falsy(x) == x = Undefined \/ x = ""

\* x || d
OrDefault(x, d) == IF Falsy(x) THEN d ELSE x

\* process.env.openai_api_key || process.env.OPENAI_API_KEY
ApiKey(e) == OrDefault(e.openai_api_key, e.OPENAI_API_KEY)

\* `data:${mime || 'image/jpeg'};base64,${base64}`
DataUrl(mime, base64) ==
  <<"data:", OrDefault(mime, "image/jpeg"), ";base64,", base64>>

Prompt(template, bodyFatClause) ==
  [template |-> template, bodyFatClause |-> bodyFatClause]

TextBlock(prompt) == [type |-> "text", text |-> prompt, url |-> <<>>]

ImageBlock(url) == [type |-> "image_url", text |-> Prompt("", FALSE), url |-> url]

AnalyzeMaxTokens == 1000

CompareMaxTokens == 1600

\* The argument of fetch: one POST to the completions endpoint.
FetchCall(apiKey, content, maxTokens) ==
  [ url |-> "https://api.openai.com/v1/chat/completions",
    method |-> "POST",
    authorization |-> <<"Bearer ", apiKey>>,
    model |-> "gpt-4.1-mini",
    content |-> content,
    max_tokens |-> maxTokens ]

ErrorResponse(status, message) ==
  [status |-> status, error |-> message, json |-> JNull]

\* res.json(value): status 200 and the value as the body.
JsonResponse(value) == [status |-> 200, error |-> "", json |-> value]

\* What the synchronous part of a handler does: it responds, or it issues
\* the outbound call.
Responds(response) == [respond |-> <<response>>, call |-> <<>>]

Calls(call) == [respond |-> <<>>, call |-> <<call>>]

\* AnalyzeContent with the content array declared once for the module: the
\* blocks a request in flight on another connection pushed are still there.
AnalyzeContentShared(body) ==
  LET others == {d \in Conns : conn[d].pc = "fetch"}
      left == IF others = {} THEN <<>>
              ELSE conn[CHOOSE d \in others : TRUE].outbound[1].content
  IN left \o << TextBlock(Prompt("analyze-baseline", FALSE)),
                ImageBlock(DataUrl(body.mimeType, body.imageBase64)) >>

\* The content array of /api/analyze-photo: the prompt, then the previous
\* image when there is one, then the image.
AnalyzeContent(body) ==
  IF ~Falsy(body.previousImageBase64)
  THEN << TextBlock(Prompt("analyze-before-after", FALSE)),
          ImageBlock(DataUrl(body.previousMimeType, body.previousImageBase64)),
          ImageBlock(DataUrl(body.mimeType, body.imageBase64)) >>
  ELSE << TextBlock(Prompt("analyze-baseline", FALSE)),
          ImageBlock(DataUrl(body.mimeType, body.imageBase64)) >>

\* AnalyzeEntry with the body validated before the key is read.
AnalyzeEntryValidatingFirst(e, body) ==
  IF Falsy(body.imageBase64)
  THEN Responds(ErrorResponse(400, "Image data is required"))
  ELSE IF Falsy(ApiKey(e))
  THEN Responds(ErrorResponse(500, "OpenAI API key not configured"))
  ELSE Calls(FetchCall(ApiKey(e), AnalyzeContent(body), AnalyzeMaxTokens))

\* /api/analyze-photo from its entry to the await of fetch.
AnalyzeEntry(e, body) ==
  IF Falsy(ApiKey(e))
  THEN Responds(ErrorResponse(500, "OpenAI API key not configured"))
  ELSE IF Falsy(body.imageBase64)
  THEN Responds(ErrorResponse(400, "Image data is required"))
  ELSE Calls(FetchCall(ApiKey(e), AnalyzeContent(body), AnalyzeMaxTokens))

HasFrontShot(body) == body.beforePose = "front" \/ body.afterPose = "front"

CompareContent(body) ==
  << TextBlock(Prompt("compare", HasFrontShot(body))),
     ImageBlock(DataUrl(body.beforeMime, body.beforeBase64)),
     ImageBlock(DataUrl(body.afterMime, body.afterBase64)) >>

\* CompareEntry that asks for one image only (&& for ||).
CompareEntryEitherImage(e, body) ==
  IF Falsy(ApiKey(e))
  THEN Responds(ErrorResponse(500, "OpenAI API key not configured"))
  ELSE IF Falsy(body.beforeBase64) /\ Falsy(body.afterBase64)
  THEN Responds(ErrorResponse(400, "Both images required"))
  ELSE Calls(FetchCall(ApiKey(e), CompareContent(body), CompareMaxTokens))

\* /api/compare-photos from its entry to the await of fetch.
CompareEntry(e, body) ==
  IF Falsy(ApiKey(e))
  THEN Responds(ErrorResponse(500, "OpenAI API key not configured"))
  ELSE IF Falsy(body.beforeBase64) \/ Falsy(body.afterBase64)
  THEN Responds(ErrorResponse(400, "Both images required"))
  ELSE Calls(FetchCall(ApiKey(e), CompareContent(body), CompareMaxTokens))

Entry(endpoint, e, body) ==
  IF endpoint = "analyze-photo" THEN AnalyzeEntry(e, body)
  ELSE CompareEntry(e, body)

\* ------------------------------------------------------------------------
\* The provider's answer and the second half of the handlers
\* ------------------------------------------------------------------------

NoContent == [c |-> "undefined", text |-> <<>>]

NoData == [d |-> "none", content |-> NoContent]

\* The body of the provider's response: a stream that fails, a text that is
\* not JSON, or JSON data.
Unreadable == [k |-> "unreadable", raw |-> "", data |-> NoData]

RawBody(raw) == [k |-> "raw", raw |-> raw, data |-> NoData]

JsonBody(d, content) ==
  [k |-> "json", raw |-> "", data |-> [d |-> d, content |-> content]]

\* A completion whose choices[0].message.content is the string text.
Completion(text) == JsonBody("content", [c |-> "string", text |-> text])

Rejected == [settled |-> "rejected", ok |-> FALSE, body |-> Unreadable]

Resolved(ok, body) == [settled |-> "resolved", ok |-> ok, body |-> body]

NoReply == [settled |-> "pending", ok |-> FALSE, body |-> Unreadable]

\* data.choices?.[0]?.message?.content: reading choices of null throws; a
\* missing choices, choices[0] or message gives undefined.
ContentOf(data) ==
  CASE data.d = "null" -> [throws |-> TRUE, content |-> NoContent]
    [] data.d = "content" -> [throws |-> FALSE, content |-> data.content]
    [] OTHER -> [throws |-> FALSE, content |-> NoContent]

\* An exception reaches the handler's catch.
Thrown == [thrown |-> TRUE, response |-> ErrorResponse(500, "Internal server error")]

Returned(response) == [thrown |-> FALSE, response |-> response]

\* Normalize with daysApart set only when the reply left it out.
NormalizeKeepingDays(parsed) ==
  LET p == IF HasProp(parsed, KDaysApart) THEN parsed
           ELSE SetProp(parsed, KDaysApart, JNum(0))
  IN IF HasProp(p, KFocusAreas) /\ Truthy(p.m[KFocusAreas]) THEN p
     ELSE SetProp(p, KFocusAreas, JArr(<<>>))

\* Normalize with focusAreas defaulted only when the reply left it out.
NormalizeAbsentOnly(parsed) ==
  TheOne({ IF HasProp(p, KFocusAreas) THEN p
           ELSE SetProp(p, KFocusAreas, JArr(<<>>))
           : p \in {SetProp(parsed, KDaysApart, JNum(0))} })

\* parsed.daysApart = 0; if (!parsed.focusAreas) parsed.focusAreas = [];
Normalize(parsed) ==
  TheOne({ IF HasProp(p, KFocusAreas) /\ Truthy(p.m[KFocusAreas]) THEN p
           ELSE SetProp(p, KFocusAreas, JArr(<<>>))
           : p \in {SetProp(parsed, KDaysApart, JNum(0))} })

\* ExtractAnalyze with the fixups of the other handler applied.
ExtractAnalyzeNormalizing(text) ==
  TheOne({
    IF ~jsonMatch.found
    THEN Returned(ErrorResponse(500, "Invalid AI response"))
    ELSE TheOne({ IF ~parsed.ok THEN Thrown
                  ELSE Returned(JsonResponse(Normalize(parsed.v)))
                  : parsed \in {JSONparse(jsonMatch.span)} })
    : jsonMatch \in {BraceMatch(text)} })

\* From text.match to the response, for a text that is a string.
ExtractAnalyze(text) ==
  TheOne({
    IF ~jsonMatch.found
    THEN Returned(ErrorResponse(500, "Invalid AI response"))
    ELSE TheOne({ IF ~parsed.ok THEN Thrown
                  ELSE Returned(JsonResponse(parsed.v))
                  : parsed \in {JSONparse(jsonMatch.span)} })
    : jsonMatch \in {BraceMatch(text)} })

\* ExtractCompare with JSON.parse guarded by its own try/catch.
ExtractCompareGuardingParse(text) ==
  TheOne({
    IF ~jsonMatch.found
    THEN Returned(ErrorResponse(500, "Invalid AI response"))
    ELSE TheOne({ IF ~parsed.ok THEN Returned(ErrorResponse(500, "Invalid AI response"))
                  ELSE Returned(JsonResponse(Normalize(parsed.v)))
                  : parsed \in {JSONparse(jsonMatch.span)} })
    : jsonMatch \in {BraceMatch(text)} })

ExtractCompare(text) ==
  TheOne({
    IF ~jsonMatch.found
    THEN Returned(ErrorResponse(500, "Invalid AI response"))
    ELSE TheOne({ IF ~parsed.ok THEN Thrown
                  ELSE Returned(JsonResponse(Normalize(parsed.v)))
                  : parsed \in {JSONparse(jsonMatch.span)} })
    : jsonMatch \in {BraceMatch(text)} })

\* A handler from await response.json() to its response: response.json()
\* rejects on a body that is unreadable or not JSON; content || '' is the
\* empty string for undefined, null and ""; a content that is truthy and
\* not a string has no match method, and the call throws.
AfterJson(endpoint, body) ==
  IF body.k # "json" THEN Thrown
  ELSE LET got == ContentOf(body.data) IN
       IF got.throws THEN Thrown
       ELSE IF got.content.c = "nonString" THEN Thrown
       ELSE LET text == IF got.content.c = "string" THEN got.content.text
                        ELSE <<>>
            IN IF endpoint = "analyze-photo" THEN ExtractAnalyze(text)
               ELSE ExtractCompare(text)

FailureMessage(endpoint) ==
  IF endpoint = "analyze-photo" THEN "Failed to analyze photo"
  ELSE "Failed to compare photos"

\* AfterErrorText with the provider's text put in the response.
AfterErrorTextLeaking(endpoint, body) ==
  IF body.k = "unreadable"
  THEN [thrown |-> TRUE, logs |-> <<>>,
        response |-> ErrorResponse(500, "Internal server error")]
  ELSE [thrown |-> FALSE, logs |-> << <<"OpenAI error:", body>> >>,
        response |-> ErrorResponse(500, body.raw)]

\* A handler from await response.text() to its response, when !response.ok:
\* the text is logged and the response is the endpoint's fixed message.
AfterErrorText(endpoint, body) ==
  IF body.k = "unreadable"
  THEN [thrown |-> TRUE, logs |-> <<>>,
        response |-> ErrorResponse(500, "Internal server error")]
  ELSE [thrown |-> FALSE, logs |-> << <<"OpenAI error:", body>> >>,
        response |-> ErrorResponse(500, FailureMessage(endpoint))]

\* ------------------------------------------------------------------------
\* Inputs
\* ------------------------------------------------------------------------

Endpoints == {"analyze-photo", "compare-photos"}

AnalyzeBody(image, mime, previous, previousMime) ==
  [ imageBase64 |-> image, mimeType |-> mime,
    previousImageBase64 |-> previous, previousMimeType |-> previousMime ]

CompareBody(before, beforeMime, after, afterMime, beforePose, afterPose) ==
  [ beforeBase64 |-> before, beforeMime |-> beforeMime,
    afterBase64 |-> after, afterMime |-> afterMime,
    beforePose |-> beforePose, afterPose |-> afterPose ]

\* previousImageBase64 and previousMimeType.
Previous ==
  { <<Undefined, Undefined>>, <<"", Undefined>>, <<"BBBB", Undefined>>,
    <<"BBBB", "image/webp">> }

AnalyzeBodies ==
  { AnalyzeBody(i, m, pv[1], pv[2]) :
      i \in {Undefined, "", "AAAA"}, m \in {Undefined, "image/png"},
      pv \in Previous }

Poses ==
  { <<Undefined, Undefined>>, <<"front", Undefined>>, <<"side", "front">>,
    <<"side", "side">> }

CompareBodies ==
  { CompareBody(b, bm, a, Undefined, ps[1], ps[2]) :
      b \in {Undefined, "", "AAAA"}, bm \in {Undefined, "image/png"},
      a \in {Undefined, "", "BBBB"}, ps \in Poses }

Bodies(endpoint) ==
  IF endpoint = "analyze-photo" THEN AnalyzeBodies ELSE CompareBodies

\* The two variables the handlers read: both unset; the first empty and the
\* second unset; both set; the first empty and the second set.
EnvChoices ==
  { [openai_api_key |-> Undefined, OPENAI_API_KEY |-> Undefined],
    [openai_api_key |-> "", OPENAI_API_KEY |-> Undefined],
    [openai_api_key |-> "sk-lower", OPENAI_API_KEY |-> "sk-upper"],
    [openai_api_key |-> "", OPENAI_API_KEY |-> "sk-upper"] }

\* The data of a JSON body that holds no content string: null, a number, an
\* object without choices, empty choices, a choice without message, and a
\* message whose content is missing, null, or an array of parts.
OtherJsonBodies ==
  { JsonBody("null", NoContent), JsonBody("number", NoContent),
    JsonBody("noChoices", NoContent), JsonBody("emptyChoices", NoContent),
    JsonBody("noMessage", NoContent),
    JsonBody("content", NoContent),
    JsonBody("content", [c |-> "null", text |-> <<>>]),
    JsonBody("content", [c |-> "nonString", text |-> <<>>]) }

ErrorBodies ==
  { Unreadable, RawBody("invalid_api_key"), RawBody("rate_limited"),
    Completion(Stringify(JObj(KOverall :> JStr(<<"y">>)))) }

\* Every way the outbound call ends: fetch rejects, or it resolves with a
\* status that is or is not a success and a body.
Outcomes ==
  {Rejected}
    \cup { Resolved(FALSE, b) : b \in ErrorBodies }
    \cup { Resolved(TRUE, b) :
             b \in {Unreadable, RawBody("<html>")} \cup OtherJsonBodies }
    \cup { Resolved(TRUE, Completion(t)) : t \in ReplyTexts }

\* ------------------------------------------------------------------------
\* Connections and the handlers' steps
\* ------------------------------------------------------------------------

NoBody == [none |-> TRUE]

\* A connection with no request: pc is the handler's position; outbound,
\* responses and logged are the calls issued, the responses sent and the
\* console.error lines written for the request.
IdleConn ==
  [ pc |-> "idle", endpoint |-> "none", body |-> NoBody, outbound |-> <<>>,
    reply |-> NoReply, responses |-> <<>>, logged |-> <<>> ]

Init ==
  /\ env \in EnvChoices
  /\ listening = FALSE
  /\ conn = [c \in Conns |-> IdleConn]

\* app.listen(PORT, ...): nothing is checked before the server starts.
Listen ==
  /\ ~listening
  /\ listening' = TRUE
  /\ UNCHANGED <<env, conn>>

\* A request arrives, with a body among bodies, and its handler runs to its
\* first await or response.
Receive(c, endpoint, bodies) ==
  /\ listening
  /\ conn[c].pc = "idle"
  /\ \E body \in bodies :
       conn' = LET r == Entry(endpoint, env, body)
               IN [conn EXCEPT ![c] =
                     [ pc |-> IF r.call = <<>> THEN "done" ELSE "fetch",
                       endpoint |-> endpoint,
                       body |-> body,
                       outbound |-> conn[c].outbound \o r.call,
                       reply |-> NoReply,
                       responses |-> conn[c].responses \o r.respond,
                       logged |-> <<>> ]]
  /\ UNCHANGED <<env, listening>>

\* The outbound call ends, in one of outcomes; nothing bounds the time it
\* takes.
ProviderSettles(c, outcomes) ==
  /\ conn[c].pc = "fetch"
  /\ \E outcome \in outcomes :
       conn' = [conn EXCEPT ![c].reply = outcome, ![c].pc = "settled"]
  /\ UNCHANGED <<env, listening>>

\* Catch that logs the error and sends nothing.
CatchWithoutResponse(c) ==
  [conn EXCEPT ![c].pc = "done",
               ![c].logged = Append(@, <<"Error:">>)]

\* catch (error) { console.error('Error:', error); res.status(500).json(...) }
Catch(c) ==
  [conn EXCEPT ![c].pc = "done",
               ![c].logged = Append(@, <<"Error:">>),
               ![c].responses = Append(@, Thrown.response)]

\* ResumeAfterFetch with the call issued again when fetch rejects.
ResumeRetrying(c) ==
  /\ conn[c].pc = "settled"
  /\ conn' = IF conn[c].reply.settled = "rejected"
             THEN [conn EXCEPT ![c].pc = "fetch",
                               ![c].outbound = IF Len(@) < 2 THEN @ \o @ ELSE @]
             ELSE IF ~conn[c].reply.ok
                  THEN [conn EXCEPT ![c].pc = "readText"]
                  ELSE [conn EXCEPT ![c].pc = "readJson"]
  /\ UNCHANGED <<env, listening>>

\* The handler resumes after await fetch(...).
ResumeAfterFetch(c) ==
  /\ conn[c].pc = "settled"
  /\ conn' = IF conn[c].reply.settled = "rejected" THEN Catch(c)
             ELSE IF ~conn[c].reply.ok
                  THEN [conn EXCEPT ![c].pc = "readText"]
                  ELSE [conn EXCEPT ![c].pc = "readJson"]
  /\ UNCHANGED <<env, listening>>

\* The handler resumes after await response.text().
ReadErrorText(c) ==
  /\ conn[c].pc = "readText"
  /\ \E r \in {AfterErrorText(conn[c].endpoint, conn[c].reply.body)} :
       conn' = IF r.thrown THEN Catch(c)
               ELSE [conn EXCEPT ![c].pc = "done",
                                 ![c].logged = @ \o r.logs,
                                 ![c].responses = Append(@, r.response)]
  /\ UNCHANGED <<env, listening>>

\* The handler resumes after await response.json().
ReadJson(c) ==
  /\ conn[c].pc = "readJson"
  /\ \E r \in {AfterJson(conn[c].endpoint, conn[c].reply.body)} :
       conn' = IF r.thrown THEN Catch(c)
               ELSE [conn EXCEPT ![c].pc = "done",
                                 ![c].responses = Append(@, r.response)]
  /\ UNCHANGED <<env, listening>>

\* The exchange is over; the connection takes the next request.
Close(c) ==
  /\ conn[c].pc = "done"
  /\ conn' = [conn EXCEPT ![c] = IdleConn]
  /\ UNCHANGED <<env, listening>>

\* One connection, every body and every outcome of the call.
Next ==
  \/ Listen
  \/ \E endpoint \in Endpoints : Receive(1, endpoint, Bodies(endpoint))
  \/ ProviderSettles(1, Outcomes)
  \/ ResumeAfterFetch(1)
  \/ ReadErrorText(1)
  \/ ReadJson(1)
  \/ Close(1)

Spec == Init /\ [][Next]_vars

\* ------------------------------------------------------------------------
\* Concurrent requests
\* ------------------------------------------------------------------------

ImageNames == <<"AAAA", "BBBB", "CCCC", "DDDD", "EEEE">>

\* The image the client of connection c sends: each client has its own.
ImageOf(c) == ImageNames[c]

\* The bodies the client of connection c sends: one complete, one lacking
\* an image.
ConcBodies(c, endpoint) ==
  IF endpoint = "analyze-photo"
  THEN { AnalyzeBody(ImageOf(c), Undefined, Undefined, Undefined),
         AnalyzeBody(Undefined, Undefined, ImageOf(c), Undefined) }
  ELSE { CompareBody(ImageOf(c), "image/png", "ZZZZ", Undefined, "front", Undefined),
         CompareBody(ImageOf(c), Undefined, Undefined, Undefined, Undefined, "side") }

GoodText == <<"O", "K", " ">> \o Stringify(JObj(KDaysApart :> JNum(5)))

BadSpanText == <<"{", ",", "}">>

\* Outcomes of the call under concurrency: fetch rejects; a failure status;
\* a success whose body is not JSON; a reply with an object; a reply whose
\* brace span does not parse.
ConcOutcomes ==
  { Rejected,
    Resolved(FALSE, RawBody("rate_limited")),
    Resolved(TRUE, RawBody("<html>")),
    Resolved(TRUE, Completion(GoodText)),
    Resolved(TRUE, Completion(BadSpanText)) }

\* Every connection handles requests; the handlers' steps interleave.
NextConc ==
  \/ Listen
  \/ \E c \in Conns :
       \/ \E endpoint \in Endpoints : Receive(c, endpoint, ConcBodies(c, endpoint))
       \/ ProviderSettles(c, ConcOutcomes)
       \/ ResumeAfterFetch(c)
       \/ ReadErrorText(c)
       \/ ReadJson(c)
       \/ Close(c)

\* The configurations under concurrency: no key, and both variables set.
ConcEnvChoices ==
  { [openai_api_key |-> Undefined, OPENAI_API_KEY |-> Undefined],
    [openai_api_key |-> "sk-lower", OPENAI_API_KEY |-> "sk-upper"] }

InitConc ==
  /\ env \in ConcEnvChoices
  /\ listening = FALSE
  /\ conn = [c \in Conns |-> IdleConn]

SpecConc == InitConc /\ [][NextConc]_vars

\* The event loop runs every continuation that is ready: a handler that can
\* resume does resume.  The provider's answer is under no such obligation.
HandlerFairness ==
  \A c \in Conns :
    /\ WF_vars(ResumeAfterFetch(c))
    /\ WF_vars(ReadErrorText(c))
    /\ WF_vars(ReadJson(c))

FairSpecConc == SpecConc /\ HandlerFairness

\* ------------------------------------------------------------------------
\* Properties
\* ------------------------------------------------------------------------

Answered(c) == conn[c].pc = "done"

\* The reply text of connection c, when the call succeeded with a
\* completion whose content is a string.
HasReplyText(c) ==
  /\ conn[c].reply.settled = "resolved"
  /\ conn[c].reply.ok
  /\ conn[c].reply.body.k = "json"
  /\ conn[c].reply.body.data.d = "content"
  /\ conn[c].reply.body.data.content.c = "string"

ReplyText(c) == conn[c].reply.body.data.content.text

\* A 200 response of connection c, if it sent one.
Sent200(c, r) == r \in 1..Len(conn[c].responses) /\ conn[c].responses[r].status = 200

\* Neither variable of the environment holds a key.
KeyAbsent ==
  /\ env.openai_api_key \in {Undefined, ""}
  /\ env.OPENAI_API_KEY \in {Undefined, ""}

\* The request of connection c lacks an image its endpoint requires.
ImageMissing(c) ==
  \/ /\ conn[c].endpoint = "analyze-photo"
     /\ conn[c].body.imageBase64 \in {Undefined, ""}
  \/ /\ conn[c].endpoint = "compare-photos"
     /\ \/ conn[c].body.beforeBase64 \in {Undefined, ""}
        \/ conn[c].body.afterBase64 \in {Undefined, ""}

\* The wrapped reply texts, each with the object it was written from.
WrappedPairs ==
  { [text |-> pre \o Stringify(o) \o post, obj |-> o] :
      pre \in ProseBefore, o \in ReplyObjects, post \in ProseAfter }

\* C1: every 200 response of /api/compare-photos is an object whose
\* daysApart is the number 0, whatever the reply held for daysApart.
C1_DaysApartIsZero ==
  \A c \in Conns : \A r \in 1..Len(conn[c].responses) :
    (conn[c].endpoint = "compare-photos" /\ Sent200(c, r)) =>
      LET json == conn[c].responses[r].json IN
      /\ json.t = "obj"
      /\ HasProp(json, KDaysApart)
      /\ json.m[KDaysApart] = JNum(0)

\* C1 witness: the reply gave daysApart as 5 and the request was answered 200.
C1_Witness ==
  /\ conn[1].endpoint = "compare-photos"
  /\ Answered(1)
  /\ HasReplyText(1)
  /\ ReplyText(1) = Stringify(JObj(KDaysApart :> JNum(5)))
  /\ Sent200(1, 1)

\* C2 as stated: every 200 response of /api/compare-photos holds a
\* focusAreas that is an array, whatever the reply gave for it.
C2_FocusAreasIsArray ==
  \A c \in Conns : \A r \in 1..Len(conn[c].responses) :
    (conn[c].endpoint = "compare-photos" /\ Sent200(c, r)) =>
      LET json == conn[c].responses[r].json IN
      /\ HasProp(json, KFocusAreas)
      /\ json.m[KFocusAreas].t = "arr"

\* C2 amended: every 200 response of /api/compare-photos holds a focusAreas
\* that is not null, false, 0 or ""; when the reply is an object written
\* with or without prose around it, focusAreas is the empty array where the
\* reply omitted it or gave null, false, 0 or "", and otherwise the reply's
\* own value, array or not.
C2_FocusAreasDefaulted ==
  \A c \in Conns : \A r \in 1..Len(conn[c].responses) :
    (conn[c].endpoint = "compare-photos" /\ Sent200(c, r)) =>
      LET json == conn[c].responses[r].json IN
      /\ HasProp(json, KFocusAreas)
      /\ json.m[KFocusAreas] \notin {JNull, JBool(FALSE), JNum(0), JStr(<<>>)}
      /\ \A w \in WrappedPairs :
           (HasReplyText(c) /\ ReplyText(c) = w.text) =>
             json.m[KFocusAreas] =
               IF /\ HasProp(w.obj, KFocusAreas)
                  /\ w.obj.m[KFocusAreas] \notin
                       {JNull, JBool(FALSE), JNum(0), JStr(<<>>)}
               THEN w.obj.m[KFocusAreas]
               ELSE JArr(<<>>)

\* C2 witness: the reply gave focusAreas as the string "Chest" and the 200
\* response carries that string.
C2_Witness ==
  /\ conn[1].endpoint = "compare-photos"
  /\ Answered(1)
  /\ HasReplyText(1)
  /\ ReplyText(1) = Stringify(JObj(KFocusAreas :> JStr(Chest)))
  /\ Sent200(1, 1)
  /\ conn[1].responses[1].json.m[KFocusAreas] = JStr(Chest)

\* C3 as stated: a request that lacks a required image is answered 400 with
\* its endpoint's message, in every configuration.
C3_MissingImageIs400 ==
  \A c \in Conns :
    (conn[c].pc # "idle" /\ ImageMissing(c)) =>
      conn[c].responses =
        << ErrorResponse(400, IF conn[c].endpoint = "analyze-photo"
                              THEN "Image data is required"
                              ELSE "Both images required") >>

\* C3 amended: when the environment holds a key, a request that lacks a
\* required image is answered 400 with its endpoint's message, and with
\* nothing else.
C3_MissingImageIs400WithKey ==
  ~KeyAbsent => C3_MissingImageIs400

\* C3 witness: a key is set and /api/compare-photos got beforeBase64 alone.
C3_Witness ==
  /\ ~KeyAbsent
  /\ conn[1].endpoint = "compare-photos"
  /\ conn[1].body.beforeBase64 = "AAAA"
  /\ conn[1].body.afterBase64 = Undefined
  /\ conn[1].responses = <<ErrorResponse(400, "Both images required")>>

\* C4: with no key in the environment the server still starts, and every
\* request, whatever its body, is answered 500 and issues no outbound call.
C4_NoKeyIs500 ==
  KeyAbsent =>
    /\ ~listening => ENABLED Listen
    /\ \A c \in Conns :
         conn[c].pc # "idle" =>
           /\ Answered(c)
           /\ conn[c].outbound = <<>>
           /\ Len(conn[c].responses) = 1
           /\ conn[c].responses[1].status = 500

\* C4 witness: no key, the server listens, and a request that carries its
\* image was answered 500.
C4_Witness ==
  /\ KeyAbsent
  /\ listening
  /\ conn[1].endpoint = "analyze-photo"
  /\ conn[1].body.imageBase64 = "AAAA"
  /\ Answered(1)
  /\ conn[1].responses[1].status = 500

\* The text a handler matches: content || '' where the body is JSON data
\* whose content can be read and is a string, undefined or null.
HasText(c) ==
  /\ conn[c].reply.settled = "resolved"
  /\ conn[c].reply.ok
  /\ conn[c].reply.body.k = "json"
  /\ conn[c].reply.body.data.d # "null"
  /\ \/ conn[c].reply.body.data.d # "content"
     \/ conn[c].reply.body.data.content.c # "nonString"

TextOf(c) == IF HasReplyText(c) THEN ReplyText(c) ELSE <<>>

\* The text holds a '{' and, after it, a '}'.
HasSpan(text) ==
  \E a, b \in 1..Len(text) : a < b /\ text[a] = "{" /\ text[b] = "}"

\* From the first '{' of the text to its last '}'.
GreedySpan(text) ==
  LET a == CHOOSE a \in 1..Len(text) :
             text[a] = "{" /\ \A x \in 1..(a - 1) : text[x] # "{"
      b == CHOOSE b \in 1..Len(text) :
             text[b] = "}" /\ \A x \in (b + 1)..Len(text) : text[x] # "}"
  IN SubSeq(text, a, b)

\* C5 as stated: in both handlers a reply text without a span from '{' to a
\* later '}', and a reply text whose span does not parse, are both answered
\* 500 "Invalid AI response".
C5_BothInvalidAIResponse ==
  \A c \in Conns :
    (Answered(c) /\ HasText(c)) =>
      /\ ~HasSpan(TextOf(c)) =>
           conn[c].responses = <<ErrorResponse(500, "Invalid AI response")>>
      /\ (HasSpan(TextOf(c)) /\ ~JSONparse(GreedySpan(TextOf(c))).ok) =>
           conn[c].responses = <<ErrorResponse(500, "Invalid AI response")>>

\* C5 amended: both failures are answered 500; a reply text without a span
\* is answered "Invalid AI response", and a reply text whose span does not
\* parse is answered "Internal server error", from the handler's catch.
C5_ExtractionFailures ==
  \A c \in Conns :
    (Answered(c) /\ HasText(c)) =>
      /\ ~HasSpan(TextOf(c)) =>
           conn[c].responses = <<ErrorResponse(500, "Invalid AI response")>>
      /\ (HasSpan(TextOf(c)) /\ ~JSONparse(GreedySpan(TextOf(c))).ok) =>
           /\ conn[c].responses = <<ErrorResponse(500, "Internal server error")>>
           /\ conn[c].logged = << <<"Error:">> >>

\* C5 witness: the reply is {,} : the span is found, it does not parse, and
\* the answer is that of the catch.
C5_Witness ==
  /\ conn[1].endpoint = "compare-photos"
  /\ Answered(1)
  /\ HasReplyText(1)
  /\ ReplyText(1) = <<"{", ",", "}">>
  /\ conn[1].responses = <<ErrorResponse(500, "Internal server error")>>

\* C6: a request causes at most one outbound call: one exactly when a key is
\* configured and the required images are present, none otherwise, never a
\* second one; the call is issued by the step that validated the request,
\* while no response has been sent, and none is issued after a response.
C6_AtMostOneCall ==
  /\ [](\A c \in Conns :
          /\ Len(conn[c].outbound) <= 1
          /\ conn[c].pc # "idle" =>
               Len(conn[c].outbound) =
                 IF ~KeyAbsent /\ ~ImageMissing(c) THEN 1 ELSE 0
          /\ conn[c].pc \in {"fetch", "settled", "readText", "readJson"} =>
               conn[c].responses = <<>>)
  /\ [][\A c \in Conns :
          /\ Len(conn'[c].outbound) > Len(conn[c].outbound) =>
               /\ conn[c].pc = "idle"
               /\ conn'[c].responses = <<>>
          /\ (conn[c].responses # <<>> /\ conn'[c].pc # "idle") =>
               conn'[c].outbound = conn[c].outbound]_vars

\* C6 witness: fetch rejected, the request was answered, one call was made.
C6_Witness ==
  /\ Answered(1)
  /\ conn[1].reply.settled = "rejected"
  /\ Len(conn[1].outbound) = 1
  /\ Len(conn[1].responses) = 1

\* C7: when the provider answers with a failure status, the request is
\* answered 500 with a message fixed in the code: the endpoint's own when
\* the provider's text could be read, in which case the text is logged and
\* nothing else is, and that of the catch when it could not; the body is
\* never extracted, even where it holds a completion.
C7_ProviderFailure ==
  \A c \in Conns :
    (Answered(c) /\ conn[c].reply.settled = "resolved" /\ ~conn[c].reply.ok) =>
      IF conn[c].reply.body.k = "unreadable"
      THEN /\ conn[c].responses = <<ErrorResponse(500, "Internal server error")>>
           /\ conn[c].logged = << <<"Error:">> >>
      ELSE /\ conn[c].responses =
                << ErrorResponse(500, IF conn[c].endpoint = "analyze-photo"
                                      THEN "Failed to analyze photo"
                                      ELSE "Failed to compare photos") >>
           /\ conn[c].logged = << <<"OpenAI error:", conn[c].reply.body>> >>

\* C7 witness: the provider failed with a body that holds a completion, and
\* the request was answered 500.
C7_Witness ==
  /\ Answered(1)
  /\ conn[1].endpoint = "compare-photos"
  /\ conn[1].reply.settled = "resolved"
  /\ ~conn[1].reply.ok
  /\ conn[1].reply.body.k = "json"
  /\ conn[1].responses = <<ErrorResponse(500, "Failed to compare photos")>>

\* C8: for /api/analyze-photo, a reply that is an object, alone or between
\* prose without braces, is answered 200 with that object and nothing
\* else; and every 200 response is the value of the span from the first '{'
\* to the last '}' of the reply text.
C8_AnalyzeReturnsObject ==
  \A c \in Conns :
    (conn[c].endpoint = "analyze-photo" /\ Answered(c) /\ HasText(c)) =>
      /\ \A w \in WrappedPairs :
           TextOf(c) = w.text => conn[c].responses = <<JsonResponse(w.obj)>>
      /\ \A r \in 1..Len(conn[c].responses) :
           Sent200(c, r) =>
             /\ HasSpan(TextOf(c))
             /\ JSONparse(GreedySpan(TextOf(c))) =
                  [ok |-> TRUE, v |-> conn[c].responses[r].json]

\* C8 witness: the reply is prose around an object with a nested object, and
\* the response is that object.
C8_Witness ==
  LET o == JObj((KFocusAreas :> JStr(Chest)) @@ (KDaysApart :> JNum(5))
                  @@ (KMuscles :> JArr(<<JObj(KName :> JStr(<<"A", "r", "m", "s">>))>>)))
  IN /\ conn[1].endpoint = "analyze-photo"
     /\ Answered(1)
     /\ HasReplyText(1)
     /\ ReplyText(1) = <<"S", "u", "r", "e", ":", " ">> \o Stringify(o) \o <<" ", "o", "k">>
     /\ conn[1].responses = <<JsonResponse(o)>>

\* The handler of connection c met a failure it does not test for: fetch
\* rejected, the body could not be read or was not JSON, the data was null,
\* the content was not a string, or the span did not parse.
UnexpectedFailure(c) ==
  \/ conn[c].reply.settled = "rejected"
  \/ /\ conn[c].reply.settled = "resolved"
     /\ \/ conn[c].reply.body.k = "unreadable"
        \/ /\ conn[c].reply.ok
           /\ \/ conn[c].reply.body.k = "raw"
              \/ ~HasText(c)
              \/ HasSpan(TextOf(c)) /\ ~JSONparse(GreedySpan(TextOf(c))).ok

\* C9: a request never has two responses; while its handler is suspended it
\* has none; once answered it has exactly one, with status 200, 400 or 500;
\* an unexpected failure is answered 500 "Internal server error" with no
\* result in the body; and once the outbound call has resolved or failed,
\* the request is eventually answered.
C9_ExactlyOneResponse ==
  /\ [](\A c \in Conns :
          /\ Len(conn[c].responses) <= 1
          /\ conn[c].pc \in {"fetch", "settled", "readText", "readJson"} =>
               conn[c].responses = <<>>
          /\ Answered(c) =>
               /\ Len(conn[c].responses) = 1
               /\ conn[c].responses[1].status \in {200, 400, 500}
          /\ (Answered(c) /\ UnexpectedFailure(c)) =>
               conn[c].responses = <<ErrorResponse(500, "Internal server error")>>)
  /\ \A c \in Conns : (conn[c].pc = "settled") ~> Answered(c)

\* C9 witness: the provider's body was not JSON, and the request was
\* answered by the catch while another request is still suspended.
C9_Witness ==
  /\ Answered(1)
  /\ conn[1].reply = Resolved(TRUE, RawBody("<html>"))
  /\ conn[1].responses = <<ErrorResponse(500, "Internal server error")>>
  /\ conn[2].pc = "fetch"

\* The data URLs of the images of connection c's own body, in the order its
\* endpoint sends them.
OwnUrls(c) ==
  LET url(m, b) == <<"data:", IF m \in {Undefined, ""} THEN "image/jpeg" ELSE m,
                     ";base64,", b>>
      body == conn[c].body
  IN IF conn[c].endpoint = "analyze-photo"
     THEN IF body.previousImageBase64 \in {Undefined, ""}
          THEN << url(body.mimeType, body.imageBase64) >>
          ELSE << url(body.previousMimeType, body.previousImageBase64),
                  url(body.mimeType, body.imageBase64) >>
     ELSE << url(body.beforeMime, body.beforeBase64),
             url(body.afterMime, body.afterBase64) >>

\* The prompt of connection c's own body.
OwnPrompt(c) ==
  IF conn[c].endpoint = "analyze-photo"
  THEN [ template |-> IF conn[c].body.previousImageBase64 \in {Undefined, ""}
                      THEN "analyze-baseline" ELSE "analyze-before-after",
         bodyFatClause |-> FALSE ]
  ELSE [ template |-> "compare",
         bodyFatClause |-> "front" \in {conn[c].body.beforePose, conn[c].body.afterPose} ]

\* C10: under every interleaving, the outbound call of a request carries the
\* configured key, the prompt of its own body and the images of its own
\* body, and nothing else; two requests to the same endpoint whose calls
\* ended the same way are answered the same, whatever else was in flight;
\* and a step of one request changes nothing of another.
C10_Isolation ==
  /\ [](\A c \in Conns :
          /\ conn[c].outbound # <<>> =>
               LET call == conn[c].outbound[1] IN
               /\ call.authorization =
                    <<"Bearer ", IF env.openai_api_key \in {Undefined, ""}
                                 THEN env.OPENAI_API_KEY ELSE env.openai_api_key>>
               /\ call.content[1] =
                    [type |-> "text", text |-> OwnPrompt(c), url |-> <<>>]
               /\ [i \in 1..(Len(call.content) - 1) |-> call.content[i + 1].url]
                    = OwnUrls(c)
               /\ \A i \in 2..Len(call.content) : call.content[i].type = "image_url"
          /\ \A d \in Conns :
               ( /\ Answered(c) /\ Answered(d)
                 /\ conn[c].endpoint = conn[d].endpoint
                 /\ conn[c].outbound # <<>> /\ conn[d].outbound # <<>>
                 /\ conn[c].reply = conn[d].reply ) =>
                   /\ conn[c].responses = conn[d].responses
                   /\ conn[c].logged = conn[d].logged)
  /\ [][\A c \in Conns :
          conn'[c] # conn[c] => \A d \in Conns \ {c} : conn'[d] = conn[d]]_vars

\* C10 witness: two requests with different images are in flight at once,
\* one to each endpoint: the first is suspended at its outbound call while
\* the second has its provider's answer and is about to read it.
C10_Witness ==
  /\ conn[1].pc = "fetch"
  /\ conn[2].pc = "readJson"
  /\ conn[1].endpoint = "analyze-photo"
  /\ conn[2].endpoint = "compare-photos"
  /\ conn[1].body.imageBase64 # conn[2].body.beforeBase64
  /\ Len(conn[1].outbound[1].content) = 2
  /\ Len(conn[2].outbound[1].content) = 3

====
